---- MODULE Spec2Model ----
(***************************************************************************)
(* A model of react-lit-focus-scope (src/src/index.js): the FocusScope      *)
(* component, its three hooks (useFocusContainment, useRestoreFocus,        *)
(* useAutoFocus), the module-level scope registry, and the part of the DOM  *)
(* they drive (document tree, TreeWalker, focus events, animation frames).  *)
(*                                                                         *)
(* Nodes are numbered in document (pre-)order; node 0 is document.body.     *)
(* A layout is one rendered tree: the parent, tag and attributes of every   *)
(* node and, for every FocusScope, its two sentinel spans.                  *)
(***************************************************************************)
EXTENDS Integers, Sequences, FiniteSets, TLC

\* `null` / `undefined` of the program
Null == -1
\* document.body
Body == 0
\* a ref object whose `current` is null
EmptyRef == -2

\* --------------------------------------------------------------- bounds
\* largest number of plain inputs rendered in the parametrised scope
MaxInputs == 3
\* largest number of animation-frame callbacks waiting at one time
MaxRaf == 2
\* largest nesting of focus() calls made from inside focus listeners
MaxDepth == 4

\* ------------------------------------------------------------- layouts
Row(p, k, a) == [par |-> p, kind |-> k, attrs |-> a]

Sentinel(p) == Row(p, "span", {"hidden"})

Input(p) == Row(p, "input", {})

\* <div><input outside/><FocusScope>k inputs</FocusScope><input after/></div>
FlatLayout(k) ==
  [ name  |-> "flat",
    nodes |-> << Row(Body, "div", {}), Input(1), Sentinel(1) >>
              \o [i \in 1..k |-> Input(1)]
              \o << Sentinel(1), Input(1) >>,
    start |-> (1 :> 3),
    end   |-> (1 :> (4 + k)),
    refs  |-> (1 :> {3 + k}),
    removable |-> {2} ]

\* test "should work with nested elements": the inputs sit at three depths
NestedElementsLayout ==
  [ name  |-> "nestedElements",
    nodes |-> << Row(Body, "div", {}), Input(1), Sentinel(1),
                 Input(1), Row(1, "div", {}), Input(5), Row(5, "div", {}),
                 Input(7), Sentinel(1), Input(1) >>,
    start |-> (1 :> 3),
    end   |-> (1 :> 9),
    refs  |-> (1 :> {8}),
    removable |-> {2} ]

\* test "should skip non-tabbable elements", plus a hidden and a
\* display:none ancestor with a plain input inside, and a self-focusing
\* child (autoFocus attribute)
ZooLayout ==
  [ name  |-> "zoo",
    nodes |-> << Row(Body, "div", {}), Input(1), Sentinel(1),
                 Row(1, "div", {}),
                 Input(1),
                 Row(1, "input", {"hidden"}),
                 Row(1, "input", {"displayNone"}),
                 Row(1, "input", {"visHidden"}),
                 Row(1, "input", {"visCollapse"}),
                 Row(1, "div", {"tabindexNeg"}),
                 Row(1, "input", {"disabled", "tabindex0"}),
                 Row(1, "div", {"displayNone"}), Input(12),
                 Row(1, "input", {"autoFocus"}),
                 Input(1),
                 Sentinel(1), Input(1) >>,
    start |-> (1 :> 3),
    end   |-> (1 :> 16),
    refs  |-> (1 :> {15, 10}),
    removable |-> {2} ]

\* test "should work with multiple focus scopes": two scopes side by side
SiblingLayout ==
  [ name  |-> "sibling",
    nodes |-> << Row(Body, "div", {}), Input(1),
                 Sentinel(1), Input(1), Row(1, "input", {"displayNone"}),
                 Input(1), Sentinel(1),
                 Sentinel(1), Input(1), Input(1), Sentinel(1) >>,
    start |-> (1 :> 3 @@ 2 :> 8),
    end   |-> (1 :> 7 @@ 2 :> 11),
    refs  |-> (1 :> {} @@ 2 :> {}),
    removable |-> {} ]

\* a scope whose only focusable element cannot be reached with Tab
NegOnlyLayout ==
  [ name  |-> "negOnly",
    nodes |-> << Row(Body, "div", {}), Input(1), Sentinel(1),
                 Row(1, "div", {"tabindexNeg"}), Row(1, "input", {"disabled"}),
                 Sentinel(1), Input(1) >>,
    start |-> (1 :> 3),
    end   |-> (1 :> 6),
    refs  |-> (1 :> {4}),
    removable |-> {2} ]

\* test "should move focus to the next element after the previously focused
\* node on Tab": before, trigger, after, then the scope at the end
HandOffLayout ==
  [ name  |-> "handOff",
    nodes |-> << Row(Body, "div", {}), Input(1), Row(1, "button", {}), Input(1),
                 Sentinel(1), Input(1), Input(1), Input(1), Sentinel(1) >>,
    start |-> (1 :> 5),
    end   |-> (1 :> 9),
    refs  |-> (1 :> {8}),
    removable |-> {3} ]

\* test "should skip over elements within the scope when moving focus to
\* the next element": the scope sits right behind the trigger
AdjacentLayout ==
  [ name  |-> "adjacent",
    nodes |-> << Row(Body, "div", {}), Input(1), Row(1, "button", {}),
                 Sentinel(1), Input(1), Input(1), Input(1), Sentinel(1),
                 Input(1) >>,
    start |-> (1 :> 4),
    end   |-> (1 :> 8),
    refs  |-> (1 :> {7}),
    removable |-> {3} ]

\* <FocusScope><input/><FocusScope><input/><input/></FocusScope><input/>
\* </FocusScope>: scope 2 is a child of scope 1
NestedScopesLayout ==
  [ name  |-> "nestedScopes",
    nodes |-> << Row(Body, "div", {}), Input(1),
                 Sentinel(1), Input(1),
                 Sentinel(1), Input(1), Input(1), Sentinel(1),
                 Input(1), Sentinel(1) >>,
    start |-> (1 :> 3 @@ 2 :> 5),
    end   |-> (1 :> 10 @@ 2 :> 8),
    refs  |-> (1 :> {} @@ 2 :> {}),
    removable |-> {} ]

\* the same, with the conditional child not rendered at mount
GrowLayout ==
  [ name  |-> "grow",
    nodes |-> << Row(Body, "div", {}), Input(1), Sentinel(1), Input(1),
                 Input(1), Sentinel(1), Input(1) >>,
    start |-> (1 :> 3),
    end   |-> (1 :> 6),
    refs  |-> (1 :> {}),
    removable |-> {2},
    optional |-> {5},
    absent |-> {5} ]

\* <input/><FocusScope></FocusScope><input/>: a scope without children
EmptyLayout ==
  [ name  |-> "empty",
    nodes |-> << Row(Body, "div", {}), Input(1), Sentinel(1), Sentinel(1),
                 Input(1) >>,
    start |-> (1 :> 3),
    end   |-> (1 :> 4),
    refs  |-> (1 :> {}),
    removable |-> {2} ]

\* two scopes side by side with one input each, mounted and unmounted
\* independently of each other
PairLayout ==
  [ name  |-> "pair",
    nodes |-> << Row(Body, "div", {}), Input(1),
                 Sentinel(1), Input(1), Sentinel(1),
                 Sentinel(1), Input(1), Sentinel(1) >>,
    start |-> (1 :> 3 @@ 2 :> 6),
    end   |-> (1 :> 5 @@ 2 :> 8),
    refs  |-> (1 :> {} @@ 2 :> {}),
    removable |-> {2} ]

\* the flat layout with two inputs in the scope, the second of which the
\* application renders conditionally
RerenderLayout ==
  [ name  |-> "rerender",
    nodes |-> << Row(Body, "div", {}), Input(1), Sentinel(1), Input(1),
                 Input(1), Sentinel(1), Input(1) >>,
    start |-> (1 :> 3),
    end   |-> (1 :> 6),
    refs  |-> (1 :> {5}),
    removable |-> {2},
    optional |-> {5} ]

\* a scope around a container of kind k with attributes a, which holds a
\* child of kind c with an input inside, an input of its own and a comment;
\* a plain input follows the container
VisLayout(k, a, c) ==
  [ name  |-> "visible",
    nodes |-> << Row(Body, "div", {}), Input(1), Sentinel(1),
                 Row(1, k, a), Row(4, c, {}), Input(5), Input(4),
                 Row(4, "#comment", {}),
                 Input(1), Sentinel(1), Input(1) >>,
    start |-> (1 :> 3),
    end   |-> (1 :> 10),
    refs  |-> (1 :> {}),
    removable |-> {} ]

SingleLayouts ==
  {FlatLayout(k) : k \in 1..MaxInputs}
    \cup {NestedElementsLayout, ZooLayout, NegOnlyLayout}

Layouts == SingleLayouts \cup {SiblingLayout}


\* ------------------------------------------------------------------ state
VARIABLES
  layout,         \* the rendered tree of this run (never changes)
  props,          \* props[s]: contain, restoreFocus, autoFocus, initialFocusRef
  parent,         \* parent[n]: parentNode of n, Null when n is a detached root
  phase,          \* phase[s]: "init", "committed", "mounted", "unmounting", "gone"
  activeElement,  \* document.activeElement
  activeScope,    \* module variable activeScope (a scope id, or Null)
  scopes,         \* module variable scopes (the registry)
  scopeRef,       \* scopeRef[s]: scopeRef.current, the scope's node list
  focusedNode,    \* focusedNode[s]: focusedNode.current of useFocusContainment
  containScope,   \* containScope[s]: `scope` captured by the containment effect
  listeners,      \* scopes whose containment listeners are attached, in order
  restoreScope,   \* restoreScope[s]: `scope` captured by useRestoreFocus
  nodeToRestore,  \* nodeToRestore[s] of useRestoreFocus
  capture,        \* scopes whose capture-phase keydown listener is attached
  raf,            \* requested animation-frame callbacks, in request order
  thrown,         \* an exception escaped a handler or an effect
  overflow,       \* focus() calls nested deeper than MaxDepth
  preMount,       \* preMount[s]: the element focused before s was committed (history)
  last            \* the operation that produced this state (history)

vars ==
  << layout, props, parent, phase, activeElement, activeScope, scopes, scopeRef,
     focusedNode, containScope, listeners, restoreScope, nodeToRestore, capture,
     raf, thrown, overflow, preMount, last >>

Nodes == 0..Len(layout.nodes)

ScopeIds == DOMAIN layout.start

Kind(n) == IF n = Body THEN "body" ELSE layout.nodes[n].kind

Attrs(n) == IF n = Body THEN {} ELSE layout.nodes[n].attrs

\* the parent a node has while it is rendered
RenderedParent(L, n) == IF n = Body THEN Null ELSE L.nodes[n].par

\* the host nodes one FocusScope renders at the top level: both sentinels and
\* everything between them
TopLevel(L, s) ==
  {n \in 1..Len(L.nodes) :
     /\ L.nodes[n].par = L.nodes[L.start[s]].par
     /\ L.start[s] <= n
     /\ n <= L.end[s]}

SetMin(S) == CHOOSE x \in S : \A y \in S : x <= y

SetMax(S) == CHOOSE x \in S : \A y \in S : y <= x

\* ------------------------------------------------------------------- DOM
\* The operators below read a world record w, a snapshot of the variables,
\* so that one handler can be applied to the result of another.
World ==
  [ parent |-> parent, phase |-> phase, active |-> activeElement,
    activeScope |-> activeScope, scopes |-> scopes, scopeRef |-> scopeRef,
    focusedNode |-> focusedNode, containScope |-> containScope,
    listeners |-> listeners, restoreScope |-> restoreScope,
    nodeToRestore |-> nodeToRestore, capture |-> capture, raf |-> raf,
    thrown |-> thrown, overflow |-> overflow, preMount |-> preMount,
    prevented |-> FALSE, stopped |-> FALSE ]

ChildNodes(w, n) == {m \in Nodes : w.parent[m] = n}

FirstChild(w, n) ==
  IF ChildNodes(w, n) = {} THEN Null ELSE SetMin(ChildNodes(w, n))

LastChild(w, n) ==
  IF ChildNodes(w, n) = {} THEN Null ELSE SetMax(ChildNodes(w, n))

NextSibling(w, n) ==
  IF n = Null \/ w.parent[n] = Null THEN Null
  ELSE LET S == {m \in ChildNodes(w, w.parent[n]) : m > n}
       IN  IF S = {} THEN Null ELSE SetMin(S)

PreviousSibling(w, n) ==
  IF n = Null \/ w.parent[n] = Null THEN Null
  ELSE LET S == {m \in ChildNodes(w, w.parent[n]) : m < n}
       IN  IF S = {} THEN Null ELSE SetMax(S)

RECURSIVE Contains(_, _, _)
\* a.contains(b): b is a or a descendant of a
Contains(w, a, b) ==
  IF b = Null \/ a = Null THEN FALSE
  ELSE IF a = b THEN TRUE
  ELSE Contains(w, a, w.parent[b])

\* document.body.contains(n)
Attached(w, n) == Contains(w, Body, n)

\* ------------------------------------------------- scope membership tests
isElementInScope(w, element, scope) ==
  \E i \in DOMAIN scope : Contains(w, scope[i], element)

isElementInAnyScope(w, element) ==
  \E s \in w.scopes : isElementInScope(w, element, w.scopeRef[s])

\* ---------------------------------------------------- selectors, visibility
FormControls == {"input", "select", "textarea", "button"}

AlwaysFocusable == {"summary", "iframe", "object", "embed"}

HasTabindex(n) == Attrs(n) \cap {"tabindex0", "tabindexNeg"} # {}

\* one of the first thirteen entries of focusableElements matches
MatchesBase(n) ==
  \/ Kind(n) \in FormControls /\ "disabled" \notin Attrs(n)
                              /\ "typeHidden" \notin Attrs(n)
  \/ Kind(n) \in {"a", "area"} /\ "href" \in Attrs(n)
  \/ Kind(n) \in AlwaysFocusable
  \/ Kind(n) \in {"audio", "video"} /\ "controls" \in Attrs(n)
  \/ "contenteditable" \in Attrs(n)

MatchesFocusable(n) ==
  \/ MatchesBase(n) /\ ("hidden" \notin Attrs(n) \/ "contenteditable" \in Attrs(n))
  \/ HasTabindex(n) /\ "disabled" \notin Attrs(n) /\ "hidden" \notin Attrs(n)

\* a faulty variant: the tabbable selector keeps tabindex="-1" elements
MatchesTabbableAnyTabindex(n) ==
  \/ MatchesBase(n) /\ "hidden" \notin Attrs(n)
  \/ HasTabindex(n) /\ "disabled" \notin Attrs(n)

MatchesTabbable(n) ==
  \/ MatchesBase(n) /\ "hidden" \notin Attrs(n) /\ "tabindexNeg" \notin Attrs(n)
  \/ HasTabindex(n) /\ "tabindexNeg" \notin Attrs(n) /\ "disabled" \notin Attrs(n)

RECURSIVE ComputedVisibility(_, _)
\* getComputedStyle(n).visibility: the inline value, else the inherited one
ComputedVisibility(w, n) ==
  IF "visHidden" \in Attrs(n) THEN "hidden"
  ELSE IF "visCollapse" \in Attrs(n) THEN "collapse"
  ELSE IF n = Body \/ w.parent[n] = Null THEN "visible"
  ELSE ComputedVisibility(w, w.parent[n])

\* getComputedStyle(n).display is none for display:none and for [hidden]
ComputedDisplayNone(n) == Attrs(n) \cap {"displayNone", "hidden"} # {}

\* element instanceof HTMLElement || element instanceof SVGElement: not so
\* for a comment and for an element of another namespace, such as MathML
IsHtmlOrSvg(element) == Kind(element) \notin {"#comment", "math"}

isStyleVisible(w, element) ==
  LET isVisible == Attrs(element) \cap {"displayNone", "visHidden", "visCollapse"} = {}
  IN  IF ~IsHtmlOrSvg(element) THEN FALSE
      ELSE IF isVisible
      THEN /\ ~ComputedDisplayNone(element)
           /\ ComputedVisibility(w, element) \notin {"hidden", "collapse"}
      ELSE FALSE

\* a faulty variant: a closed DETAILS hides its SUMMARY too
isAttributeVisibleNoSummary(element, childElement) ==
  /\ "hidden" \notin Attrs(element)
  /\ IF Kind(element) = "details" /\ childElement # Null
     THEN "open" \in Attrs(element)
     ELSE TRUE

isAttributeVisible(element, childElement) ==
  /\ "hidden" \notin Attrs(element)
  /\ IF Kind(element) = "details" /\ childElement # Null
        /\ Kind(childElement) # "summary"
     THEN "open" \in Attrs(element)
     ELSE TRUE

RECURSIVE isElementVisible(_, _, _)
isElementVisible(w, element, childElement) ==
  /\ Kind(element) # "#comment"
  /\ isStyleVisible(w, element)
  /\ isAttributeVisible(element, childElement)
  /\ IF w.parent[element] = Null THEN TRUE
     ELSE isElementVisible(w, w.parent[element], element)


\* ------------------------------------------------------------ TreeWalker
\* f is the walker's filter: [tabbable, from, hasScope, scope]
WalkerFilter(tabbable, from, hasScope, scope) ==
  [tabbable |-> tabbable, from |-> from, hasScope |-> hasScope, scope |-> scope]

\* a faulty variant: the walker forgets the scope restriction
acceptNodeAnyScope(w, f, node) ==
  IF f.from # Null /\ Contains(w, f.from, node) THEN "reject"
  ELSE IF /\ (IF f.tabbable THEN MatchesTabbable(node) ELSE MatchesFocusable(node))
          /\ isElementVisible(w, node, Null)
       THEN "accept"
       ELSE "skip"

\* acceptNode of getFocusableTreeWalker
acceptNode(w, f, node) ==
  IF f.from # Null /\ Contains(w, f.from, node) THEN "reject"
  ELSE IF /\ (IF f.tabbable THEN MatchesTabbable(node) ELSE MatchesFocusable(node))
          /\ isElementVisible(w, node, Null)
          /\ (~f.hasScope \/ isElementInScope(w, node, f.scope))
       THEN "accept"
       ELSE "skip"

RECURSIVE NextSkippingChildren(_, _, _)
\* the next node in document order that is not a descendant of node,
\* staying inside root
NextSkippingChildren(w, root, node) ==
  IF node = root \/ node = Null THEN Null
  ELSE IF NextSibling(w, node) # Null THEN NextSibling(w, node)
  ELSE IF w.parent[node] = Null THEN Null
  ELSE NextSkippingChildren(w, root, w.parent[node])

RECURSIVE WalkChildren(_, _, _, _)
RECURSIVE WalkSiblings(_, _, _, _)
\* the filter answered r for child c of the node the walk came from
AfterChild(w, f, root, c, r) ==
  IF r = "accept" THEN c
  ELSE IF r = "reject" THEN WalkSiblings(w, f, root, c)
  ELSE WalkChildren(w, f, root, c)

\* the filter answered r for nx, the next node that is not a descendant
AfterSibling(w, f, root, nx, r) ==
  IF r = "accept" THEN nx
  ELSE IF r = "skip" THEN WalkChildren(w, f, root, nx)
  ELSE WalkSiblings(w, f, root, nx)

WalkChildren(w, f, root, node) ==
  IF FirstChild(w, node) # Null
  THEN AfterChild(w, f, root, FirstChild(w, node),
                  acceptNode(w, f, FirstChild(w, node)))
  ELSE WalkSiblings(w, f, root, node)

WalkSiblings(w, f, root, node) ==
  IF NextSkippingChildren(w, root, node) = Null THEN Null
  ELSE AfterSibling(w, f, root, NextSkippingChildren(w, root, node),
                    acceptNode(w, f, NextSkippingChildren(w, root, node)))

\* TreeWalker.nextNode() with currentNode = cur; Null when there is none
nextNode(w, f, root, cur) == WalkChildren(w, f, root, cur)

RECURSIVE WalkBack(_, _, _, _)
RECURSIVE WalkDeep(_, _, _, _, _)
\* the filter answered r for sib, the previous sibling
AfterPrevious(w, f, root, sib, r) ==
  IF r = "reject" THEN WalkBack(w, f, root, sib)
  ELSE WalkDeep(w, f, root, sib, r)

\* the filter answered r for the parent p
AfterParent(w, f, root, p, r) ==
  IF r = "accept" THEN p ELSE WalkBack(w, f, root, p)

WalkBack(w, f, root, node) ==
  IF node = root THEN Null
  ELSE IF PreviousSibling(w, node) # Null
  THEN AfterPrevious(w, f, root, PreviousSibling(w, node),
                     acceptNode(w, f, PreviousSibling(w, node)))
  ELSE IF w.parent[node] = Null THEN Null
  ELSE AfterParent(w, f, root, w.parent[node], acceptNode(w, f, w.parent[node]))

WalkDeep(w, f, root, node, r) ==
  IF r # "reject" /\ LastChild(w, node) # Null
  THEN WalkDeep(w, f, root, LastChild(w, node),
                acceptNode(w, f, LastChild(w, node)))
  ELSE IF r = "accept" THEN node
  ELSE WalkBack(w, f, root, node)

\* TreeWalker.previousNode() with currentNode = cur; Null when there is none
previousNode(w, f, root, cur) == WalkBack(w, f, root, cur)

\* a faulty variant: Shift is ignored
StepForwardOnly(w, f, root, cur, shift) == nextNode(w, f, root, cur)

\* e.shiftKey ? walker.previousNode() : walker.nextNode()
Step(w, f, root, cur, shift) ==
  IF shift THEN previousNode(w, f, root, cur) ELSE nextNode(w, f, root, cur)

\* -------------------------------------------------- focus and its events
RECURSIVE Rendered(_, _)
\* the element and all its ancestors generate a box
Rendered(w, n) ==
  /\ ~ComputedDisplayNone(n)
  /\ IF n = Body \/ w.parent[n] = Null THEN TRUE
     ELSE Rendered(w, w.parent[n])

\* element.focus() has an effect: the platform's focusable areas
CanFocus(w, n) ==
  /\ n # Null
  /\ n # Body
  /\ Attached(w, n)
  /\ \/ Kind(n) \in FormControls /\ "disabled" \notin Attrs(n)
                                 /\ "typeHidden" \notin Attrs(n)
     \/ Kind(n) \in {"a", "area"} /\ "href" \in Attrs(n)
     \/ Kind(n) \in AlwaysFocusable
     \/ Kind(n) \in {"audio", "video"} /\ "controls" \in Attrs(n)
     \/ HasTabindex(n)
     \/ "contenteditable" \in Attrs(n)
  /\ Rendered(w, n)
  /\ ComputedVisibility(w, n) = "visible"

Throw(w) == [w EXCEPT !.thrown = TRUE]

\* window.requestAnimationFrame(cb); raf.current = id for a deferred blur check
RequestFrame(w, kind, s, target) ==
  LET old == [i \in DOMAIN w.raf |->
                IF kind = "blur" /\ w.raf[i].kind = "blur" /\ w.raf[i].scope = s
                THEN [w.raf[i] EXCEPT !.cur = FALSE]
                ELSE w.raf[i]]
  IN  [w EXCEPT !.raf = Append(old, [kind |-> kind, scope |-> s,
                                      target |-> target, cur |-> kind = "blur"])]

\* useFocusContainment.onBlur: only requests the deferred check
onBlur(w, s, target) == RequestFrame(w, "blur", s, target)

RECURSIVE PathUp(_, _)
\* the event path from the target up to its root
PathUp(w, n) == IF n = Null THEN << >> ELSE << n >> \o PathUp(w, w.parent[n])

\* the scopes whose element-level listeners sit on node e, in the order the
\* listeners were added
ElementListeners(w, e) ==
  SelectSeq(w.listeners,
            LAMBDA s : \E i \in DOMAIN w.containScope[s] : w.containScope[s][i] = e)

RECURSIVE Flatten(_)
Flatten(ss) == IF ss = << >> THEN << >> ELSE Head(ss) \o Flatten(Tail(ss))

\* the listeners a bubbling focusin / focusout reaches on the elements of
\* its path, in call order
ElementInvocations(w, t) ==
  Flatten([i \in DOMAIN PathUp(w, t) |-> ElementListeners(w, PathUp(w, t)[i])])

RECURSIVE DispatchFocusOut(_, _, _)
DispatchFocusOut(w, ss, target) ==
  IF ss = << >> THEN w
  ELSE DispatchFocusOut(onBlur(w, Head(ss), target), Tail(ss), target)

RECURSIVE Focus(_, _, _)
RECURSIVE DispatchFocusIn(_, _, _, _)
RECURSIVE onFocus(_, _, _, _)
RECURSIVE focusFirstInScope(_, _, _)

\* focusout is dispatched on old, which has just lost focus
FireFocusOut(w, old) ==
  IF old = Body THEN w
  ELSE DispatchFocusOut(w, ElementInvocations(w, old), old)

\* focusin is dispatched on n, which has just got focus: the listeners on
\* the elements of the path, then the listeners on the document
FireFocusIn(w, n, d) ==
  DispatchFocusIn(w, ElementInvocations(w, n) \o w.listeners, n, d)

\* element.focus(): moves document.activeElement and fires focusout on the
\* old element and focusin on the new one, synchronously
Focus(w, n, d) ==
  IF ~CanFocus(w, n) \/ n = w.active THEN w
  ELSE IF d = 0 THEN [w EXCEPT !.overflow = TRUE]
  ELSE FireFocusIn(FireFocusOut([w EXCEPT !.active = n], w.active), n, d)

DispatchFocusIn(w, ss, target, d) ==
  IF ss = << >> THEN w
  ELSE DispatchFocusIn(onFocus(w, Head(ss), target, d), Tail(ss), target, d)

\* focusElement(element, scroll): focus() inside try/catch
focusElement(w, element, d) ==
  IF element # Null THEN Focus(w, element, d) ELSE w

\* a faulty variant: a focusin outside every scope is let through
onFocusNoRecovery(w, s, target, d) ==
  IF isElementInAnyScope(w, target)
  THEN [w EXCEPT !.activeScope = s, !.focusedNode[s] = target]
  ELSE w

\* a faulty variant: every scope looks at its own node list only, not at
\* the registry of all scopes
onFocusOwnScopeOnly(w, s, target, d) ==
  IF ~isElementInScope(w, target, w.scopeRef[s])
  THEN IF w.focusedNode[s] # Null THEN Focus(w, w.focusedNode[s], d - 1)
       ELSE IF w.activeScope # Null
            THEN focusFirstInScope(w, w.scopeRef[w.activeScope], d - 1)
            ELSE w
  ELSE [w EXCEPT !.activeScope = s, !.focusedNode[s] = target]

\* useFocusContainment.onFocus of scope s for a focusin on target
onFocus(w, s, target, d) ==
  LET isInAnyScope == isElementInAnyScope(w, target)
  IN  IF ~isInAnyScope
      THEN IF w.focusedNode[s] # Null THEN Focus(w, w.focusedNode[s], d - 1)
           ELSE IF w.activeScope # Null
                THEN focusFirstInScope(w, w.scopeRef[w.activeScope], d - 1)
                ELSE w
      ELSE [w EXCEPT !.activeScope = s, !.focusedNode[s] = target]

getScopeRoot(w, scope) == w.parent[scope[1]]

\* a faulty variant: the walk starts on the scope's first node, not on the sentinel
focusFirstInScopeFromFirstNode(w, scope, d) ==
  IF scope = << >> THEN Throw(w)
  ELSE LET root == getScopeRoot(w, scope)
           f == WalkerFilter(TRUE, Null, TRUE, scope)
       IN  IF root = Null THEN Throw(w)
           ELSE focusElement(w, nextNode(w, f, root, scope[1]), d)

focusFirstInScope(w, scope, d) ==
  IF scope = << >> THEN Throw(w)
  ELSE LET sentinel == PreviousSibling(w, scope[1])
           root == getScopeRoot(w, scope)
           f == WalkerFilter(TRUE, Null, TRUE, scope)
       IN  IF root = Null \/ sentinel = Null THEN Throw(w)
           ELSE focusElement(w, nextNode(w, f, root, sentinel), d)

\* element.blur() of the focused element: focus falls back to the body
Blur(w) == FireFocusOut([w EXCEPT !.active = Body], w.active)


\* -------------------------------------------------------- keydown handlers
\* the walker of useFocusContainment.onKeyDown
ContainFilter(scope) == WalkerFilter(TRUE, Null, TRUE, scope)

\* where the walker is put when it ran off the scope: behind the last node
\* with Shift, before the first node otherwise
WrapSeed(w, scope, shift) ==
  IF shift THEN NextSibling(w, scope[Len(scope)])
  ELSE PreviousSibling(w, scope[1])

\* a faulty variant: the event is not consumed
ContainFocusNoPrevent(w, scope, shift, first) ==
  IF first = Null /\ WrapSeed(w, scope, shift) = Null THEN Throw(w)
  ELSE focusElement(w,
                    IF first # Null THEN first
                    ELSE Step(w, ContainFilter(scope), getScopeRoot(w, scope),
                              WrapSeed(w, scope, shift), shift),
                    MaxDepth)

\* useFocusContainment.onKeyDown after the first step of the walker, which
\* found `first`: wrap around if it found nothing, consume the event, focus
ContainFocus(w, scope, shift, first) ==
  IF first = Null /\ WrapSeed(w, scope, shift) = Null THEN Throw(w)
  ELSE focusElement([w EXCEPT !.prevented = TRUE],
                    IF first # Null THEN first
                    ELSE Step(w, ContainFilter(scope), getScopeRoot(w, scope),
                              WrapSeed(w, scope, shift), shift),
                    MaxDepth)

\* useFocusContainment.onKeyDown once the focused element is known to be in
\* the scope
ContainMove(w, scope, shift) ==
  IF getScopeRoot(w, scope) = Null THEN Throw(w)
  ELSE ContainFocus(w, scope, shift,
                    Step(w, ContainFilter(scope), getScopeRoot(w, scope),
                         w.active, shift))

\* a faulty variant: the modifier keys are not looked at
ContainKeyDownAnyModifier(w, s, shift, mod) ==
  IF ~isElementInScope(w, w.active, w.containScope[s]) THEN w
  ELSE ContainMove(w, w.containScope[s], shift)

\* useFocusContainment.onKeyDown of scope s
ContainKeyDown(w, s, shift, mod) ==
  IF mod THEN w
  ELSE IF ~isElementInScope(w, w.active, w.containScope[s]) THEN w
  ELSE ContainMove(w, w.containScope[s], shift)

\* the walker of useRestoreFocus.onKeyDown: the whole body, no scope
RestoreFilter == WalkerFilter(TRUE, Null, FALSE, << >>)

RECURSIVE SkipScope(_, _, _, _)
\* a faulty variant: candidates inside the scope are not skipped
SkipWhileNever(w, nextElement, shift, scope) == nextElement

\* the condition of the do/while of useRestoreFocus.onKeyDown
SkipWhile(w, nextElement, shift, scope) ==
  IF isElementInScope(w, nextElement, scope)
  THEN SkipScope(w, nextElement, shift, scope)
  ELSE nextElement

\* a faulty variant: the search resumes from the focused element instead of
\* the restore target
SkipScopeFromFocus(w, cur, shift, scope) ==
  SkipWhile(w, Step(w, RestoreFilter, Body, w.active, shift), shift, scope)

\* the do/while of useRestoreFocus.onKeyDown: step until the candidate is
\* not inside the scope
SkipScope(w, cur, shift, scope) ==
  SkipWhile(w, Step(w, RestoreFilter, Body, cur, shift), shift, scope)

\* nodeToRestore of scope s after the attachment test of the handler
RestoreTarget(w, s) ==
  IF ~Attached(w, w.nodeToRestore[s]) \/ w.nodeToRestore[s] = Body
  THEN Null ELSE w.nodeToRestore[s]

\* the end of useRestoreFocus.onKeyDown: focus the element found, or blur
HandOffFocus(w, nextElement) ==
  IF nextElement # Null THEN focusElement(w, nextElement, MaxDepth)
  ELSE Blur(w)

\* a faulty variant: the hand-off does not look at the element found first
HandOffWheneverTarget(w, s, shift, first) ==
  IF RestoreTarget(w, s) # Null
  THEN HandOffFocus([w EXCEPT !.nodeToRestore[s] = RestoreTarget(w, s),
                              !.prevented = TRUE, !.stopped = TRUE],
                    SkipScope(w, RestoreTarget(w, s), shift, w.restoreScope[s]))
  ELSE [w EXCEPT !.nodeToRestore[s] = RestoreTarget(w, s)]

\* useRestoreFocus.onKeyDown after the first step of the walker, which
\* found `first`
HandOff(w, s, shift, first) ==
  IF (first = Null \/ ~isElementInScope(w, first, w.restoreScope[s]))
     /\ RestoreTarget(w, s) # Null
  THEN HandOffFocus([w EXCEPT !.nodeToRestore[s] = RestoreTarget(w, s),
                              !.prevented = TRUE, !.stopped = TRUE],
                    SkipScope(w, RestoreTarget(w, s), shift, w.restoreScope[s]))
  ELSE [w EXCEPT !.nodeToRestore[s] = RestoreTarget(w, s)]

\* useRestoreFocus.onKeyDown of scope s (capture phase)
RestoreKeyDown(w, s, shift, mod) ==
  IF mod THEN w
  ELSE IF ~isElementInScope(w, w.active, w.restoreScope[s]) THEN w
  ELSE HandOff(w, s, shift, Step(w, RestoreFilter, Body, w.active, shift))

RECURSIVE RunCapture(_, _, _, _)
RunCapture(w, ss, shift, mod) ==
  IF ss = << >> THEN w
  ELSE RunCapture(RestoreKeyDown(w, Head(ss), shift, mod), Tail(ss), shift, mod)

RECURSIVE RunBubble(_, _, _, _)
RunBubble(w, ss, shift, mod) ==
  IF ss = << >> THEN w
  ELSE RunBubble(ContainKeyDown(w, Head(ss), shift, mod), Tail(ss), shift, mod)

\* what the browser does with a Tab nobody consumed: sequential focus
\* navigation over the whole document, leaving the page at either end
BrowserTab(w, shift) ==
  LET cands == {n \in Nodes : CanFocus(w, n) /\ "tabindexNeg" \notin Attrs(n)}
      ahead == IF w.active = Body THEN cands
               ELSE IF shift THEN {n \in cands : n < w.active}
               ELSE {n \in cands : n > w.active}
  IN  IF ahead = {} THEN Blur(w)
      ELSE Focus(w, IF shift THEN SetMax(ahead) ELSE SetMin(ahead), MaxDepth)

\* the bubble phase, unless a capture listener stopped the propagation
BubblePhase(w, shift, mod) ==
  IF w.stopped THEN w ELSE RunBubble(w, w.listeners, shift, mod)

\* the default action of the key, unless a listener prevented it
DefaultAction(w, shift, mod) ==
  IF ~w.prevented /\ ~mod THEN BrowserTab(w, shift) ELSE w

\* a Tab keydown: the capture listeners of the document, then (unless
\* propagation was stopped) its bubble listeners, then the default action
KeyDown(w, shift, mod) ==
  DefaultAction(BubblePhase(RunCapture(w, w.capture, shift, mod), shift, mod),
                shift, mod)


\* ------------------------------------------------------- mount and unmount
RECURSIVE SiblingsUntil(_, _, _)
\* the while loop of the FocusScope layout effect
SiblingsUntil(w, node, endNode) ==
  IF node = Null \/ node = endNode THEN << >>
  ELSE << node >> \o SiblingsUntil(w, NextSibling(w, node), endNode)

\* the nodes rendered by scope s, sentinels and descendants included
Rendering(w, s) ==
  {n \in Nodes : \E t \in TopLevel(layout, s) : Contains(w, t, n)}

\* the children the application does not render at mount
NotYetRendered == IF "absent" \in DOMAIN layout THEN layout.absent ELSE {}

\* the host nodes of scope s are inserted into the document
Insert(w, s) ==
  [w EXCEPT !.parent = [n \in Nodes |->
      IF n \in TopLevel(layout, s) \ NotYetRendered
      THEN RenderedParent(layout, n) ELSE w.parent[n]]]

\* React focuses a host element rendered with the autoFocus attribute when
\* it commits the element
CommitAutoFocus(w, s) ==
  LET auto == {n \in Rendering(w, s) : "autoFocus" \in Attrs(n)}
  IN  IF auto = {} THEN w ELSE Focus(w, SetMin(auto), MaxDepth)

\* a faulty variant: the node list starts at the first sentinel
RegisterScopeFromStart(w, s) ==
  LET nodes == SiblingsUntil(w, layout.start[s], layout.end[s])
  IN  [w EXCEPT !.scopeRef[s] = nodes, !.scopes = @ \cup {s}]

\* the layout effect of FocusScope
RegisterScope(w, s) ==
  LET nodes == SiblingsUntil(w, NextSibling(w, layout.start[s]), layout.end[s])
  IN  [w EXCEPT !.scopeRef[s] = nodes, !.scopes = @ \cup {s}]

\* the layout effect of useRestoreFocus
CaptureRestore(w, s) ==
  [w EXCEPT !.restoreScope[s] = w.scopeRef[s],
            !.nodeToRestore[s] = w.active,
            !.capture = IF props[s].contain THEN @ ELSE Append(@, s)]

\* the effect of useFocusContainment
AttachContainment(w, s) ==
  [w EXCEPT !.containScope[s] = w.scopeRef[s],
            !.listeners = IF props[s].contain THEN Append(@, s) ELSE @]

\* useAutoFocus after `activeScope = scopeRef`, first branch
FocusFirstUnlessInside(w, s) ==
  IF ~isElementInScope(w, w.active, w.scopeRef[w.activeScope])
  THEN focusFirstInScope(w, w.scopeRef[s], MaxDepth)
  ELSE w

\* useAutoFocus after `activeScope = scopeRef`, second branch
FocusRefUnlessInside(w, s) ==
  IF ~isElementInScope(w, w.active, w.scopeRef[w.activeScope])
  THEN focusElement(w, props[s].initialFocusRef, MaxDepth)
  ELSE w

\* the first if of the useAutoFocus effect
AutoFocusFirst(w, s) ==
  IF props[s].autoFocus /\ props[s].initialFocusRef = Null
  THEN FocusFirstUnlessInside([w EXCEPT !.activeScope = s], s)
  ELSE w

\* the second if of the useAutoFocus effect
AutoFocusRef(w, s) ==
  IF props[s].initialFocusRef # Null /\ props[s].initialFocusRef # EmptyRef
  THEN FocusRefUnlessInside([w EXCEPT !.activeScope = s], s)
  ELSE w

\* a faulty variant: no test whether focus is already inside the scope
useAutoFocusAlways(w, s) ==
  IF props[s].autoFocus /\ props[s].initialFocusRef = Null
  THEN focusFirstInScope([w EXCEPT !.activeScope = s], w.scopeRef[s], MaxDepth)
  ELSE IF props[s].initialFocusRef # Null /\ props[s].initialFocusRef # EmptyRef
  THEN focusElement([w EXCEPT !.activeScope = s], props[s].initialFocusRef,
                    MaxDepth)
  ELSE w

\* a faulty variant: the explicit target is ignored, the first tabbable element wins
useAutoFocusFirstOnly(w, s) ==
  IF props[s].autoFocus \/ props[s].initialFocusRef \notin {Null, EmptyRef}
  THEN FocusFirstUnlessInside([w EXCEPT !.activeScope = s], s)
  ELSE w

\* the effect of useAutoFocus
useAutoFocus(w, s) == AutoFocusRef(AutoFocusFirst(w, s), s)

\* a faulty variant: the cleanup leaves the scope in the registry
UnregisterScopeNever(w, s) == w

\* the cleanup of the FocusScope layout effect
UnregisterScope(w, s) == [w EXCEPT !.scopes = @ \ {s}]

\* a faulty variant: the cleanup does not look at restoreFocus
RestoreCleanupAlways(w, s) ==
  LET w1 == [w EXCEPT !.capture = SelectSeq(@, LAMBDA t : t # s)]
  IN  IF /\ w.nodeToRestore[s] # Null
         /\ isElementInScope(w, w.active, w.restoreScope[s])
      THEN RequestFrame(w1, "restore", s, w.nodeToRestore[s])
      ELSE w1

\* the cleanup of the useRestoreFocus layout effect
RestoreCleanup(w, s) ==
  LET w1 == [w EXCEPT !.capture = SelectSeq(@, LAMBDA t : t # s)]
  IN  IF /\ props[s].restoreFocus
         /\ w.nodeToRestore[s] # Null
         /\ isElementInScope(w, w.active, w.restoreScope[s])
      THEN RequestFrame(w1, "restore", s, w.nodeToRestore[s])
      ELSE w1

\* the host nodes of set S are removed from the document; a focused
\* element that goes with them leaves the body focused, without events
Remove(w, S) ==
  LET gone == \E t \in S : Contains(w, t, w.active)
  IN  [w EXCEPT !.parent = [n \in Nodes |-> IF n \in S THEN Null ELSE w.parent[n]],
                !.active = IF gone THEN Body ELSE @]

\* the cleanups of the two effects of useFocusContainment
DetachContainment(w, s) ==
  [w EXCEPT !.listeners = SelectSeq(@, LAMBDA t : t # s),
            !.raf = SelectSeq(@, LAMBDA c :
                       ~(c.kind = "blur" /\ c.scope = s /\ c.cur))]

\* ------------------------------------------------------- animation frame
\* the callback requested by onBlur
BlurCheck(w, s, target) ==
  IF ~isElementInAnyScope(w, w.active)
  THEN Focus([w EXCEPT !.activeScope = s, !.focusedNode[s] = target],
             target, MaxDepth)
  ELSE w

\* a faulty variant: the attachment test is inverted
RestoreCheckInverted(w, s, target) ==
  IF ~Attached(w, target)
  THEN focusElement(w, target, MaxDepth)
  ELSE w

\* the callback requested by the cleanup of useRestoreFocus
RestoreCheck(w, s, target) ==
  IF Attached(w, target)
  THEN focusElement(w, target, MaxDepth)
  ELSE w

RECURSIVE RunCallbacks(_, _)
RunCallbacks(w, cbs) ==
  IF cbs = << >> THEN w
  ELSE LET c == Head(cbs)
       IN  RunCallbacks(IF c.kind = "blur" THEN BlurCheck(w, c.scope, c.target)
                        ELSE RestoreCheck(w, c.scope, c.target),
                        Tail(cbs))


\* ---------------------------------------------------------------- actions
Op(op, s, n, shift, mod, w) ==
  [ op |-> op, scope |-> s, node |-> n, shift |-> shift, mod |-> mod,
    from |-> activeElement, prevented |-> w.prevented, stopped |-> w.stopped,
    memo |-> focusedNode, was |-> activeScope,
    ran |-> IF op = "frame" THEN raf ELSE << >>,
    restored |-> IF op = "frame"
                 THEN {raf[i].scope : i \in {j \in DOMAIN raf : raf[j].kind = "restore"}}
                 ELSE {} ]

\* the largest number of scopes rendered around one node: a focus-out
\* requests one callback for each of them
Nesting ==
  SetMax({Cardinality({t \in ScopeIds : /\ layout.start[t] <= layout.start[s]
                                        /\ layout.end[s] <= layout.end[t]})
            : s \in ScopeIds})

\* the variables of the program take the values of world w; the number of
\* pending callbacks is capped, except in a step whose chain of focus()
\* calls overflowed, which is kept and ends the behaviour
BecomeState(w, l) ==
  /\ ~overflow
  /\ w.overflow \/ Len(w.raf) <= MaxRaf * Nesting
  /\ parent' = w.parent
  /\ phase' = w.phase
  /\ activeElement' = w.active
  /\ activeScope' = w.activeScope
  /\ scopes' = w.scopes
  /\ scopeRef' = w.scopeRef
  /\ focusedNode' = w.focusedNode
  /\ containScope' = w.containScope
  /\ listeners' = w.listeners
  /\ restoreScope' = w.restoreScope
  /\ nodeToRestore' = w.nodeToRestore
  /\ capture' = w.capture
  /\ raf' = w.raf
  /\ thrown' = w.thrown
  /\ overflow' = w.overflow
  /\ preMount' = w.preMount
  /\ last' = l

\* the same, in a step that leaves the rendered tree and the props alone
Become(w, l) == BecomeState(w, l) /\ UNCHANGED << layout, props >>

\* the operation op ends in world w
Commit(w, op, s, n, shift, mod) == Become(w, Op(op, s, n, shift, mod, w))

\* React has no passive effect (or passive cleanup) left to flush
Flushed == \A s \in ScopeIds : phase[s] \notin {"committed", "unmounting"}

\* the commit that mounts scope s: insertion, autoFocus attributes, then
\* the layout effects of FocusScope and useRestoreFocus
MountCommit(s) ==
  /\ phase[s] = "init"
  /\ Flushed
  /\ Commit([CaptureRestore(RegisterScope(CommitAutoFocus(Insert(World, s), s),
                                          s), s)
               EXCEPT !.phase[s] = "committed", !.preMount[s] = activeElement],
            "mountCommit", s, Null, FALSE, FALSE)

\* the passive effects of the mount: useFocusContainment, then useAutoFocus
MountEffects(s) ==
  /\ phase[s] = "committed"
  /\ Commit([useAutoFocus(AttachContainment(World, s), s)
               EXCEPT !.phase[s] = "mounted"],
            "mountEffects", s, Null, FALSE, FALSE)

\* the commit that mounts scope o together with scope i rendered among its
\* children: the layout effects of the child run before the parent's
MountCommitNested(o, i) ==
  /\ phase[o] = "init"
  /\ phase[i] = "init"
  /\ Commit([CaptureRestore(RegisterScope(
                CaptureRestore(RegisterScope(
                  CommitAutoFocus(Insert(World, o), o), i), i), o), o)
               EXCEPT !.phase[o] = "committed", !.phase[i] = "committed",
                      !.preMount[o] = activeElement,
                      !.preMount[i] = activeElement],
            "mountCommit", o, Null, FALSE, FALSE)

\* the passive effects of that mount: the child's, then the parent's
MountEffectsNested(o, i) ==
  /\ phase[o] = "committed"
  /\ phase[i] = "committed"
  /\ Commit([useAutoFocus(AttachContainment(
                useAutoFocus(AttachContainment(World, i), i), o), o)
               EXCEPT !.phase[o] = "mounted", !.phase[i] = "mounted"],
            "mountEffects", o, Null, FALSE, FALSE)

\* the commit that unmounts scope s: the layout cleanups, then the removal
\* of its host nodes
UnmountCommit(s) ==
  /\ phase[s] = "mounted"
  /\ Flushed
  /\ Commit([Remove(RestoreCleanup(UnregisterScope(World, s), s),
                    TopLevel(layout, s))
               EXCEPT !.phase[s] = "unmounting"],
            "unmountCommit", s, Null, FALSE, FALSE)

\* the passive cleanups of the unmount
UnmountEffects(s) ==
  /\ phase[s] = "unmounting"
  /\ Commit([DetachContainment(World, s) EXCEPT !.phase[s] = "gone"],
            "unmountEffects", s, Null, FALSE, FALSE)

\* a commit that re-renders mounted scope s with child n added or removed:
\* the child is inserted or removed, then the layout effect of FocusScope
\* (dependency: children) is cleaned up and runs again
Rerender(s, n) ==
  /\ phase[s] = "mounted"
  /\ Flushed
  /\ "optional" \in DOMAIN layout
  /\ n \in layout.optional \cap TopLevel(layout, s)
  /\ Commit(RegisterScope(UnregisterScope(
               IF parent[n] = Null
               THEN [World EXCEPT !.parent[n] = RenderedParent(layout, n)]
               ELSE Remove(World, {n}), s), s),
            "rerender", s, n, FALSE, FALSE)

\* the layout effect of useRestoreFocus run again with contain = c
Recapture(w, s, c) ==
  [w EXCEPT !.restoreScope[s] = w.scopeRef[s],
            !.nodeToRestore[s] = w.active,
            !.capture = IF c THEN @ ELSE Append(@, s)]

\* the first effect of useFocusContainment cleaned up and run again when
\* contain changed to c
ReattachContainment(w, s, c) ==
  IF c = props[s].contain THEN w
  ELSE [w EXCEPT !.containScope[s] = w.scopeRef[s],
                 !.listeners = IF c THEN Append(SelectSeq(@, LAMBDA t : t # s), s)
                               ELSE SelectSeq(@, LAMBDA t : t # s)]

\* a re-render of mounted scope s with contain = c and restoreFocus = r, one
\* of them changed: the effects that depend on them are cleaned up with the
\* old values and run again with the new ones
SetProps(s, c, r) ==
  /\ phase[s] = "mounted"
  /\ Flushed
  /\ << c, r >> # << props[s].contain, props[s].restoreFocus >>
  /\ BecomeState(ReattachContainment(
                   Recapture(RestoreCleanup(World, s), s, c), s, c),
                 Op("props", s, Null, FALSE, FALSE, World))
  /\ props' = [props EXCEPT ![s].contain = c, ![s].restoreFocus = r]
  /\ UNCHANGED layout

\* the user presses Tab, with Shift and/or with one of Alt, Ctrl, Meta
KeyTab(shift, mod) ==
  Commit(KeyDown(World, shift, mod), "tab", Null, Null, shift, mod)

\* the user (or the application) focuses a focusable element
UserFocus(n) ==
  /\ CanFocus(World, n)
  /\ n # activeElement
  /\ Commit(Focus(World, n, MaxDepth), "focus", Null, n, FALSE, FALSE)

\* the focused element is blurred: focus leaves for the body
UserBlur ==
  /\ activeElement # Body
  /\ Commit(Blur(World), "blur", Null, Null, FALSE, FALSE)

\* the next animation frame: every requested callback runs, in order
AnimationFrame ==
  /\ raf # << >>
  /\ Commit(RunCallbacks([World EXCEPT !.raf = << >>], raf),
            "frame", Null, Null, FALSE, FALSE)

\* the application removes an element that is not part of any scope
RemoveNode(n) ==
  /\ n \in layout.removable
  /\ Attached(World, n)
  /\ Commit(Remove(World, {n}), "remove", Null, n, FALSE, FALSE)

\* --------------------------------------------------------- specification
PropChoices(L, s) ==
  [ contain : BOOLEAN, restoreFocus : BOOLEAN, autoFocus : BOOLEAN,
    initialFocusRef : {Null} \cup L.refs[s] ]

InitWith(L, P) ==
  /\ layout = L
  /\ props = P
  /\ parent = [n \in 0..Len(L.nodes) |->
                 IF n = Body \/ \E s \in DOMAIN L.start : n \in TopLevel(L, s)
                 THEN Null ELSE RenderedParent(L, n)]
  /\ phase = [s \in DOMAIN L.start |-> "init"]
  /\ activeElement = Body
  /\ activeScope = Null
  /\ scopes = {}
  /\ scopeRef = [s \in DOMAIN L.start |-> << >>]
  /\ focusedNode = [s \in DOMAIN L.start |-> Null]
  /\ containScope = [s \in DOMAIN L.start |-> << >>]
  /\ listeners = << >>
  /\ restoreScope = [s \in DOMAIN L.start |-> << >>]
  /\ nodeToRestore = [s \in DOMAIN L.start |-> Null]
  /\ capture = << >>
  /\ raf = << >>
  /\ thrown = FALSE
  /\ overflow = FALSE
  /\ preMount = [s \in DOMAIN L.start |-> Null]
  /\ last = [ op |-> "init", scope |-> Null, node |-> Null, shift |-> FALSE,
              mod |-> FALSE, from |-> Body, prevented |-> FALSE, stopped |-> FALSE,
              memo |-> [s \in DOMAIN L.start |-> Null], was |-> Null,
              ran |-> << >>,
              restored |-> {} ]

Init ==
  \E L \in Layouts : \E P \in [DOMAIN L.start -> UNION {PropChoices(L, s) : s \in DOMAIN L.start}] :
    /\ \A s \in DOMAIN L.start : P[s] \in PropChoices(L, s)
    /\ InitWith(L, P)

Next ==
  \/ \E s \in ScopeIds : MountCommit(s)
  \/ \E s \in ScopeIds : MountEffects(s)
  \/ \E s \in ScopeIds : UnmountCommit(s)
  \/ \E s \in ScopeIds : UnmountEffects(s)
  \/ \E shift \in BOOLEAN, mod \in BOOLEAN : KeyTab(shift, mod)
  \/ \E n \in Nodes : UserFocus(n)
  \/ UserBlur
  \/ AnimationFrame
  \/ \E n \in Nodes : RemoveNode(n)

Spec == Init /\ [][Next]_vars


\* Tab navigation of mounted scopes: one scope per document, mounted once;
\* the user tabs, clicks and blurs while frames run
InitTab ==
  \E L \in SingleLayouts : \E c \in BOOLEAN :
    InitWith(L, (1 :> [contain |-> c, restoreFocus |-> TRUE,
                       autoFocus |-> TRUE, initialFocusRef |-> Null]))

NextTab ==
  \/ \E s \in ScopeIds : MountCommit(s)
  \/ \E s \in ScopeIds : MountEffects(s)
  \/ \E shift \in BOOLEAN, mod \in BOOLEAN : KeyTab(shift, mod)
  \/ \E n \in Nodes : UserFocus(n)
  \/ UserBlur
  \/ AnimationFrame

SpecTab == InitTab /\ [][NextTab]_vars

\* two containing scopes side by side
InitSibling ==
  \E a \in BOOLEAN :
    InitWith(SiblingLayout,
             [s \in {1, 2} |-> [contain |-> TRUE, restoreFocus |-> TRUE,
                                autoFocus |-> a, initialFocusRef |-> Null]])

SpecSibling == InitSibling /\ [][NextTab]_vars

\* mounting with every combination of autoFocus and initial-focus target
InitMount ==
  \E L \in {FlatLayout(MaxInputs), ZooLayout, NegOnlyLayout} :
    \E c \in BOOLEAN, a \in BOOLEAN, r \in {Null, EmptyRef} \cup L.refs[1] :
      InitWith(L, (1 :> [contain |-> c, restoreFocus |-> TRUE,
                         autoFocus |-> a, initialFocusRef |-> r]))

\* mounting, with the user focusing and blurring elements before, between
\* and after the commit and the passive effects
NextMount ==
  \/ \E s \in ScopeIds : MountCommit(s)
  \/ \E s \in ScopeIds : MountEffects(s)
  \/ \E n \in Nodes : UserFocus(n)
  \/ UserBlur
  \/ AnimationFrame

SpecMount == InitMount /\ [][NextMount]_vars

\* mounting and unmounting a restoreFocus scope, with and without containment
InitRestore ==
  \E L \in {FlatLayout(2), ZooLayout} : \E c \in BOOLEAN :
    InitWith(L, (1 :> [contain |-> c, restoreFocus |-> TRUE,
                       autoFocus |-> TRUE, initialFocusRef |-> Null]))

SpecRestore == InitRestore /\ [][Next]_vars

\* mounting and unmounting a scope with and without restoreFocus
InitUnmount ==
  \E c \in BOOLEAN, r \in BOOLEAN, a \in BOOLEAN :
    InitWith(FlatLayout(2), (1 :> [contain |-> c, restoreFocus |-> r,
                                   autoFocus |-> a, initialFocusRef |-> Null]))

SpecUnmount == InitUnmount /\ [][Next]_vars

\* a scope whose children change while it is mounted
InitRerender ==
  \E c \in BOOLEAN, a \in BOOLEAN :
    InitWith(RerenderLayout, (1 :> [contain |-> c, restoreFocus |-> TRUE,
                                    autoFocus |-> a, initialFocusRef |-> Null]))

NextRerender ==
  \/ \E s \in ScopeIds : MountCommit(s)
  \/ \E s \in ScopeIds : MountEffects(s)
  \/ \E s \in ScopeIds : UnmountCommit(s)
  \/ \E s \in ScopeIds : UnmountEffects(s)
  \/ \E s \in ScopeIds : \E n \in Nodes : Rerender(s, n)
  \/ \E shift \in BOOLEAN, mod \in BOOLEAN : KeyTab(shift, mod)
  \/ \E n \in Nodes : UserFocus(n)
  \/ UserBlur
  \/ AnimationFrame
  \/ \E n \in Nodes : RemoveNode(n)

SpecRerender == InitRerender /\ [][NextRerender]_vars

\* a containing scope rendered inside another containing scope
InitNested ==
  \E a \in BOOLEAN, b \in BOOLEAN :
    InitWith(NestedScopesLayout,
             (1 :> [contain |-> TRUE, restoreFocus |-> TRUE,
                    autoFocus |-> a, initialFocusRef |-> Null]
              @@ 2 :> [contain |-> TRUE, restoreFocus |-> TRUE,
                       autoFocus |-> b, initialFocusRef |-> Null]))

NextNested ==
  \/ MountCommitNested(1, 2)
  \/ MountEffectsNested(1, 2)
  \/ \E shift \in BOOLEAN, mod \in BOOLEAN : KeyTab(shift, mod)
  \/ \E n \in Nodes : UserFocus(n)
  \/ UserBlur
  \/ AnimationFrame

SpecNested == InitNested /\ [][NextNested]_vars

\* two containing scopes that mount and unmount independently; the first
\* one auto-focuses
InitPair ==
  \E b \in BOOLEAN :
    InitWith(PairLayout,
             (1 :> [contain |-> TRUE, restoreFocus |-> TRUE,
                    autoFocus |-> TRUE, initialFocusRef |-> Null]
              @@ 2 :> [contain |-> TRUE, restoreFocus |-> TRUE,
                       autoFocus |-> b, initialFocusRef |-> Null]))

NextPair ==
  \/ \E s \in ScopeIds : MountCommit(s)
  \/ \E s \in ScopeIds : MountEffects(s)
  \/ \E s \in ScopeIds : UnmountCommit(s)
  \/ \E s \in ScopeIds : UnmountEffects(s)
  \/ \E n \in Nodes : UserFocus(n)
  \/ UserBlur
  \/ AnimationFrame

SpecPair == InitPair /\ [][NextPair]_vars

\* scopes with nothing to focus: no children, or no tabbable child
InitEmpty ==
  \E L \in {EmptyLayout, NegOnlyLayout} : \E c \in BOOLEAN, a \in BOOLEAN :
    InitWith(L, (1 :> [contain |-> c, restoreFocus |-> TRUE,
                       autoFocus |-> a, initialFocusRef |-> Null]))

SpecEmpty == InitEmpty /\ [][Next]_vars

\* a scope that gets a child after it mounted
InitGrow ==
  \E c \in BOOLEAN :
    InitWith(GrowLayout, (1 :> [contain |-> c, restoreFocus |-> TRUE,
                                autoFocus |-> TRUE, initialFocusRef |-> Null]))

SpecGrow == InitGrow /\ [][NextRerender]_vars

\* a scope whose contain and restoreFocus props change while it is mounted
InitProps ==
  \E c \in BOOLEAN :
    InitWith(FlatLayout(1), (1 :> [contain |-> c, restoreFocus |-> TRUE,
                                   autoFocus |-> TRUE, initialFocusRef |-> Null]))

NextProps ==
  \/ \E s \in ScopeIds : MountCommit(s)
  \/ \E s \in ScopeIds : MountEffects(s)
  \/ \E s \in ScopeIds : UnmountCommit(s)
  \/ \E s \in ScopeIds : UnmountEffects(s)
  \/ \E s \in ScopeIds : \E c \in BOOLEAN, r \in BOOLEAN : SetProps(s, c, r)
  \/ \E n \in Nodes : UserFocus(n)
  \/ AnimationFrame

SpecProps == InitProps /\ [][NextProps]_vars

\* Tab at the boundary of a scope that does not contain focus
InitHandOff ==
  \E L \in {HandOffLayout, AdjacentLayout, ZooLayout} :
    InitWith(L, (1 :> [contain |-> FALSE, restoreFocus |-> TRUE,
                       autoFocus |-> TRUE, initialFocusRef |-> Null]))

NextHandOff ==
  \/ \E s \in ScopeIds : MountCommit(s)
  \/ \E s \in ScopeIds : MountEffects(s)
  \/ \E shift \in BOOLEAN, mod \in BOOLEAN : KeyTab(shift, mod)
  \/ \E n \in Nodes : UserFocus(n)
  \/ UserBlur
  \/ \E n \in Nodes : RemoveNode(n)

SpecHandOff == InitHandOff /\ [][NextHandOff]_vars

\* a contain=true scope around containers of every kind, hidden in every way
InitVisible ==
  \E k \in {"div", "details", "math"}, c \in {"div", "summary"} :
    \E a \in {{}, {"open"}, {"tabindex0"}, {"hidden"}, {"displayNone"},
              {"visHidden"}} :
      /\ c = "summary" => k = "details"
      /\ InitWith(VisLayout(k, a, c),
                  (1 :> [contain |-> TRUE, restoreFocus |-> TRUE,
                         autoFocus |-> TRUE, initialFocusRef |-> Null]))

SpecVisible == InitVisible /\ [][NextTab]_vars

\* the walker's cases: a focusable container, a closed DETAILS with a
\* SUMMARY, a hidden container and a container of another namespace
InitWalker ==
  \E L \in {VisLayout("div", {"tabindex0"}, "div"),
             VisLayout("details", {}, "summary"),
             VisLayout("div", {"hidden"}, "div"),
             VisLayout("math", {"tabindex0"}, "div")} :
    InitWith(L, (1 :> [contain |-> TRUE, restoreFocus |-> TRUE,
                       autoFocus |-> TRUE, initialFocusRef |-> Null]))

SpecWalker == InitWalker /\ [][NextTab]_vars

\* ------------------------------------------------------------------ claims
RECURSIVE Ancestors(_)
\* n and its ancestors
Ancestors(n) == IF n = Null THEN {} ELSE {n} \cup Ancestors(parent[n])

\* the elements of a scope: the nodes of its list and their descendants
ScopeElements(s) ==
  {n \in Nodes : \E i \in DOMAIN scopeRef[s] : scopeRef[s][i] \in Ancestors(n)}

\* attributes that hide an element and everything below it
HidingAttrs == {"hidden", "displayNone", "visHidden", "visCollapse"}

\* an element the user reaches with the Tab key
TabStop(n) ==
  /\ Kind(n) \in FormControls \/ "tabindex0" \in Attrs(n)
  /\ Attrs(n) \cap ({"disabled", "tabindexNeg"} \cup HidingAttrs) = {}
  /\ \A a \in Ancestors(n) : Attrs(a) \cap HidingAttrs = {}

\* the tabbable descendants of scope s
TabCycle(s) == {n \in ScopeElements(s) : TabStop(n)}

\* the element after n (before n, with Shift) in the cyclic document order of S
CyclicNext(S, n, shift) ==
  IF shift
  THEN IF {m \in S : m < n} # {} THEN SetMax({m \in S : m < n}) ELSE SetMax(S)
  ELSE IF {m \in S : m > n} # {} THEN SetMin({m \in S : m > n}) ELSE SetMin(S)

\* the last operation was an unmodified Tab (or Shift+Tab) pressed while a
\* node of the mounted, containing scope s had focus
TabbedInside(s) ==
  /\ last.op = "tab"
  /\ ~last.mod
  /\ phase[s] = "mounted"
  /\ props[s].contain
  /\ last.from \in ScopeElements(s)

\* C1: with focus on a tabbable descendant of a mounted contain=true scope,
\* Tab moves focus to the next tabbable descendant in document order and
\* from the last to the first; Shift+Tab moves to the previous one and from
\* the first to the last (so N Tabs, or N Shift+Tabs, come back to the start).
C1_TabCycles ==
  \A s \in ScopeIds :
    (TabbedInside(s) /\ last.from \in TabCycle(s))
      => activeElement = CyclicNext(TabCycle(s), last.from, last.shift)

\* a Tab wrapped around the end and a Shift+Tab wrapped around the start
C1_Witness ==
  \E s \in ScopeIds :
    /\ TabbedInside(s)
    /\ Cardinality(TabCycle(s)) = MaxInputs
    /\ last.from \in TabCycle(s)
    /\ \/ ~last.shift /\ last.from = SetMax(TabCycle(s))
                      /\ activeElement = SetMin(TabCycle(s))
       \/ last.shift /\ last.from = SetMin(TabCycle(s))
                     /\ activeElement = SetMax(TabCycle(s))

\* C2: an unmodified Tab or Shift+Tab pressed while focus is inside a mounted
\* contain=true scope is consumed and leaves focus inside the scope; when the
\* scope has no other tabbable element, focus stays where it is.
C2_TabContained ==
  \A s \in ScopeIds :
    TabbedInside(s)
      => /\ last.prevented
         /\ activeElement \in ScopeElements(s)
         /\ (TabCycle(s) \subseteq {last.from} => activeElement = last.from)

\* Tab was pressed on the only focusable element of a scope that has no
\* tabbable element at all
C2_Witness ==
  \E s \in ScopeIds :
    /\ TabbedInside(s)
    /\ TabCycle(s) = {}
    /\ activeElement = last.from

\* C3: with two contain=true scopes mounted side by side, a Tab or Shift+Tab
\* pressed inside one scope never moves focus onto a node of the other, and
\* moves it along the scope's own tabbable elements in document order.
C3_SiblingsIndependent ==
  \A s \in ScopeIds : \A t \in ScopeIds \ {s} :
    (TabbedInside(s) /\ phase[t] = "mounted")
      => /\ activeElement \notin ScopeElements(t)
         /\ activeElement \in TabCycle(s)
         /\ (last.from \in TabCycle(s) =>
               activeElement = CyclicNext(TabCycle(s), last.from, last.shift))

\* Tab on the last element of the first scope, whose next element in the
\* document belongs to the second scope, wrapped to the first scope's start
C3_Witness ==
  /\ TabbedInside(1)
  /\ phase[2] = "mounted"
  /\ ~last.shift
  /\ last.from = SetMax(TabCycle(1))
  /\ activeElement = SetMin(TabCycle(1))
  /\ activeElement # last.from

\* C4: a Tab keydown with Alt, Ctrl or Meta held is ignored by the
\* containment handler and by the boundary hand-off handler: focus does not
\* move and the event is neither default-prevented nor stopped.
C4_ModifierIgnored ==
  (last.op = "tab" /\ last.mod)
    => /\ activeElement = last.from
       /\ ~last.prevented
       /\ ~last.stopped

\* a modified Tab was pressed while focus was inside a mounted scope
C4_Witness ==
  \E s \in ScopeIds :
    /\ last.op = "tab"
    /\ last.mod
    /\ phase[s] = "mounted"
    /\ last.from \in ScopeElements(s)

\* the last operation ran the passive mount effects of scope s
MountedNow(s) == last.op = "mountEffects" /\ last.scope = s

\* C5: mounting an autoFocus scope without an initial-focus target, while
\* focus is outside the scope, moves focus to the scope's first tabbable
\* descendant in document order.
C5_AutoFocusFirst ==
  \A s \in ScopeIds :
    ( /\ MountedNow(s)
      /\ props[s].autoFocus
      /\ props[s].initialFocusRef = Null
      /\ last.from \notin ScopeElements(s)
      /\ TabCycle(s) # {} )
      => activeElement = SetMin(TabCycle(s))

\* the first tabbable element was focused although elements that are not
\* tabbable precede it in the scope, and focus came from a real element
C5_Witness ==
  \E s \in ScopeIds :
    /\ MountedNow(s)
    /\ props[s].autoFocus
    /\ props[s].initialFocusRef = Null
    /\ last.from \notin ScopeElements(s) \cup {Body}
    /\ TabCycle(s) # {}
    /\ activeElement = SetMin(TabCycle(s))
    /\ \E n \in ScopeElements(s) : n < activeElement /\ Kind(n) # "sentinel"

\* C6: mounting a scope while focus is already on one of its descendants
\* leaves focus on that descendant, whatever autoFocus and the initial-focus
\* target say.
C6_AlreadyFocusedKept ==
  \A s \in ScopeIds :
    (MountedNow(s) /\ last.from \in ScopeElements(s))
      => activeElement = last.from

\* a scope with autoFocus and an initial-focus target was mounted while a
\* different descendant, not the first tabbable one, had focus
C6_Witness ==
  \E s \in ScopeIds :
    /\ MountedNow(s)
    /\ props[s].autoFocus
    /\ props[s].initialFocusRef \in Nodes
    /\ last.from \in ScopeElements(s)
    /\ last.from # props[s].initialFocusRef
    /\ last.from # SetMin(TabCycle(s))
    /\ activeElement = last.from

\* C7: mounting a scope with an initial-focus target that resolves to an
\* attached node, while focus is outside the scope, moves focus to that
\* target.
C7_InitialFocusTarget ==
  \A s \in ScopeIds :
    ( /\ MountedNow(s)
      /\ props[s].initialFocusRef \in Nodes
      /\ Body \in Ancestors(props[s].initialFocusRef)
      /\ last.from \notin ScopeElements(s) )
      => activeElement = props[s].initialFocusRef

\* the target got focus although it is not the first tabbable element of
\* the scope
C7_Witness ==
  \E s \in ScopeIds :
    /\ MountedNow(s)
    /\ props[s].initialFocusRef \in Nodes
    /\ last.from \notin ScopeElements(s)
    /\ TabCycle(s) # {}
    /\ props[s].initialFocusRef # SetMin(TabCycle(s))
    /\ activeElement = props[s].initialFocusRef

\* attributes and styles that take an element out of the Tab order
ExcludingAttrs ==
  {"hidden", "disabled", "tabindexNeg", "displayNone", "visHidden", "visCollapse"}

\* the last operation moved focus by the containment Tab handler of s or by
\* the auto-focus of s
MovedByScope(s) ==
  /\ \/ TabbedInside(s)
     \/ MountedNow(s) /\ props[s].autoFocus /\ props[s].initialFocusRef = Null
  /\ activeElement # last.from

\* the elements of S that lie on the way from a to b in the direction of
\* the move, wrapping around the ends
OnTheWay(S, a, b, shift) ==
  LET lo == IF shift THEN b ELSE a
      hi == IF shift THEN a ELSE b
  IN  IF lo < hi THEN {n \in S : lo < n /\ n < hi}
      ELSE {n \in S : n > lo \/ n < hi}

\* C8: the Tab cycle and the auto-focus never land on an element that is
\* hidden, disabled, tabindex="-1", display:none or visibility hidden or
\* collapse, nor on a descendant of a display:none element, and they pass
\* over no element that is free of all of these.
C8_NonTabbableSkipped ==
  \A s \in ScopeIds :
    MovedByScope(s)
      => /\ Attrs(activeElement) \cap ExcludingAttrs = {}
         /\ \A a \in Ancestors(activeElement) : "displayNone" \notin Attrs(a)
         /\ activeElement \in ScopeElements(s)
         /\ last.op = "tab" =>
              OnTheWay(TabCycle(s), last.from, activeElement, last.shift) = {}

\* a Tab passed over at least five excluded elements, one of them inside a
\* display:none container
C8_Witness ==
  \E s \in ScopeIds :
    /\ TabbedInside(s)
    /\ activeElement # last.from
    /\ LET passed == OnTheWay(ScopeElements(s), last.from, activeElement,
                              last.shift)
       IN  /\ Cardinality({n \in passed : Attrs(n) \cap ExcludingAttrs # {}}) >= 5
           /\ \E n \in passed : /\ Attrs(n) \cap ExcludingAttrs = {}
                                /\ Kind(n) \in FormControls
                                /\ \E a \in Ancestors(n) : "displayNone" \in Attrs(a)

\* the last operation was a frame that ran the restore callback of scope s
RestoreRan(s) == last.op = "frame" /\ s \in last.restored

\* C9: when the restore callback of an unmounted contain=false restoreFocus
\* scope runs, focus is on the element that had focus before the scope
\* mounted if that element is still attached, and otherwise is where it was.
C9_RestoresPreMountFocus ==
  \A s \in ScopeIds :
    (RestoreRan(s) /\ ~props[s].contain /\ preMount[s] # Body)
      => IF Body \in Ancestors(preMount[s])
         THEN activeElement = preMount[s]
         ELSE activeElement = last.from

\* C10: when the restore callback of an unmounted contain=true restoreFocus
\* scope runs with its restore target attached, focus lands on the target;
\* afterwards no frame and no effect cleanup moves focus, a user's focus
\* change is final, and focus is never on a node of the torn-down scope.
C10_RestoreSticks ==
  \A s \in ScopeIds :
    (props[s].contain /\ props[s].restoreFocus /\ phase[s] \in {"unmounting", "gone"})
      => /\ TopLevel(layout, s) \cap Ancestors(activeElement) = {}
         /\ ( /\ RestoreRan(s)
              /\ nodeToRestore[s] # Body
              /\ Body \in Ancestors(nodeToRestore[s]) )
              => activeElement = nodeToRestore[s]
         /\ (last.op \in {"frame", "unmountEffects"} /\ ~RestoreRan(s))
              => activeElement = last.from
         /\ last.op = "focus" => activeElement = last.node

\* the restore callback ran while the scope's focus listeners were still
\* attached and still remembered a node of the scope
C10_Witness ==
  \E s \in ScopeIds :
    /\ props[s].contain
    /\ RestoreRan(s)
    /\ phase[s] = "unmounting"
    /\ \E i \in DOMAIN listeners : listeners[i] = s
    /\ focusedNode[s] \notin {Null, Body}
    /\ nodeToRestore[s] # Body
    /\ activeElement = nodeToRestore[s]

\* the tab stops of the whole document
DocTabStops == {n \in Nodes : TabStop(n) /\ Body \in Ancestors(n)}

\* the last operation was an unmodified Tab (or Shift+Tab) pressed on a
\* node of scope s, which does not contain focus, has its capture listener
\* attached and has a restore target that is attached and is not the body
TabbedAtBoundary(s) ==
  /\ last.op = "tab"
  /\ ~last.mod
  /\ phase[s] \in {"committed", "mounted"}
  /\ ~props[s].contain
  /\ last.from \in ScopeElements(s)
  /\ nodeToRestore[s] \notin {Null, Body}
  /\ Body \in Ancestors(nodeToRestore[s])

\* the tab stops outside scope s that lie behind (with Shift: before) the
\* restore target of s
BeyondTarget(s, shift) ==
  {n \in DocTabStops \ ScopeElements(s) :
     IF shift THEN n < nodeToRestore[s] ELSE n > nodeToRestore[s]}

\* C11: with contain=false and an attached restore target, Tab on the last
\* tabbable element of the scope moves focus to the first tab stop behind
\* the restore target, and Shift+Tab on the first tabbable element moves
\* it to the last tab stop before the restore target (tab stops of the
\* scope itself not counted); the event is consumed.
C11_HandOffPastTarget ==
  \A s \in ScopeIds :
    ( /\ TabbedAtBoundary(s)
      /\ TabCycle(s) # {}
      /\ last.from = (IF last.shift THEN SetMin(TabCycle(s)) ELSE SetMax(TabCycle(s)))
      /\ BeyondTarget(s, last.shift) # {} )
      => /\ activeElement = (IF last.shift THEN SetMax(BeyondTarget(s, TRUE))
                             ELSE SetMin(BeyondTarget(s, FALSE)))
         /\ last.prevented

\* Shift+Tab on the first element of a scope rendered behind the element
\* that follows the trigger went to the element before the trigger
C11_Witness ==
  \E s \in ScopeIds :
    /\ TabbedAtBoundary(s)
    /\ last.shift
    /\ last.from = SetMin(TabCycle(s))
    /\ nodeToRestore[s] \notin ScopeElements(s)
    /\ \E n \in DocTabStops : nodeToRestore[s] < n /\ n < last.from
    /\ BeyondTarget(s, TRUE) # {}
    /\ activeElement = SetMax(BeyondTarget(s, TRUE))
    /\ last.prevented

\* C12: when the hand-off of a contain=false scope redirects a Tab or
\* Shift+Tab, focus does not end inside the scope, and when no tab stop
\* outside the scope lies beyond the restore target the focused element is
\* blurred.
C12_HandOffLeavesScope ==
  \A s \in ScopeIds :
    (TabbedAtBoundary(s) /\ last.stopped)
      => /\ activeElement \notin ScopeElements(s)
         /\ BeyondTarget(s, last.shift) = {} => activeElement = Body

\* the scope's own tab stops came right behind the restore target and were
\* passed over
C12_Witness ==
  \E s \in ScopeIds :
    /\ TabbedAtBoundary(s)
    /\ last.stopped
    /\ ~last.shift
    /\ nodeToRestore[s] \notin ScopeElements(s)
    /\ \E n \in TabCycle(s) :
         /\ n > nodeToRestore[s]
         /\ \A m \in DocTabStops : m > nodeToRestore[s] => n <= m
    /\ activeElement \in BeyondTarget(s, FALSE)

\* the last operation was the user focusing a node that no registered
\* scope contains, while the focus listeners of the contain=true scope s
\* were attached
FocusedOutside(s) ==
  /\ last.op = "focus"
  /\ phase[s] = "mounted"
  /\ props[s].contain
  /\ \A t \in scopes : last.node \notin ScopeElements(t)

\* what the recovery of scope s had to go to when the last operation began:
\* the node scope s had recorded, else the first tabbable element of the
\* scope that was active, else nothing
RecoveryTarget(s) ==
  IF last.memo[s] # Null THEN last.memo[s]
  ELSE IF last.was # Null /\ TabCycle(last.was) # {} THEN SetMin(TabCycle(last.was))
  ELSE Null

BlurChecked(s, t) ==
  /\ last.op = "frame"
  /\ Len(last.ran) = 1
  /\ last.ran[1].kind = "blur"
  /\ last.ran[1].scope = s
  /\ last.ran[1].target = t
  /\ phase[s] = "mounted"
  /\ props[s].contain

\* some registered scope contains node n
InRegisteredScope(n) == \E u \in scopes : n \in ScopeElements(u)

\* C14: the deferred check that follows a focus-out from a node of a
\* contain=true scope looks at the element focused when the check runs: if
\* a registered scope contains it nothing changes; otherwise the scope
\* becomes the active scope, the blurred node its last-focused node, and
\* the blurred node gets focus back.
C14_DeferredBlurCheck ==
  \A s \in ScopeIds : \A t \in Nodes :
    BlurChecked(s, t)
      => IF InRegisteredScope(last.from)
         THEN /\ activeElement = last.from
              /\ focusedNode = last.memo
              /\ activeScope = last.was
         ELSE /\ activeElement = t
              /\ focusedNode[s] = t
              /\ activeScope = s

\* the last operation was the commit that unmounted scope s
UnmountedNow(s) == last.op = "unmountCommit" /\ last.scope = s

\* the restore callback of scope s waits for the next animation frame
RestorePending(s) ==
  \E i \in DOMAIN raf : raf[i].kind = "restore" /\ raf[i].scope = s

\* C15: unmounting scope s requests a restore exactly when restoreFocus is
\* set, focus is inside the scope at teardown and a restore target is
\* known, and the requested restore moves focus to the target only if the
\* target is attached when it runs; otherwise no step of the unmount moves
\* focus (an element removed with the scope while focused leaves the body
\* focused).
C15_RestoreOnlyWhenDue ==
  \A s \in ScopeIds :
    /\ UnmountedNow(s)
         => /\ RestorePending(s)
                 <=> /\ props[s].restoreFocus
                     /\ last.from \in ScopeElements(s)
                     /\ nodeToRestore[s] # Null
            /\ activeElement = IF last.from \in ScopeElements(s)
                               THEN Body ELSE last.from
    /\ (last.op = "frame" /\ phase[s] \in {"unmounting", "gone"})
         => IF /\ RestoreRan(s)
               /\ nodeToRestore[s] # Body
               /\ Body \in Ancestors(nodeToRestore[s])
            THEN activeElement = nodeToRestore[s]
            ELSE activeElement = last.from
    /\ (last.op = "unmountEffects" /\ last.scope = s)
         => activeElement = last.from

\* the restore of a restoreFocus scope ran and took focus from the body to
\* the attached target
C15_Witness ==
  \E s \in ScopeIds :
    /\ RestoreRan(s)
    /\ props[s].restoreFocus
    /\ last.from = Body
    /\ nodeToRestore[s] # Body
    /\ activeElement = nodeToRestore[s]

\* the node list a fresh run of the FocusScope layout effect would derive
DerivedNow(s) ==
  SiblingsUntil(World, NextSibling(World, layout.start[s]), layout.end[s])

\* C16: a scope is in the registry exactly while it is mounted (from the
\* commit that mounts it to the commit that unmounts it); a re-render of
\* its children leaves it registered, with the node list derived again.
C16_RegisteredIffMounted ==
  \A s \in ScopeIds :
    /\ s \in scopes <=> phase[s] \in {"committed", "mounted"}
    /\ s \in scopes => scopeRef[s] = DerivedNow(s)

\* a re-render removed a child: the scope is still registered, with a node
\* list shorter than the one its containment effect captured at mount
C16_Witness ==
  \E s \in ScopeIds :
    /\ last.op = "rerender"
    /\ last.scope = s
    /\ s \in scopes
    /\ Len(scopeRef[s]) < Len(containScope[s])
    /\ last.node \notin {scopeRef[s][i] : i \in DOMAIN scopeRef[s]}

\* the two sentinels of scope s
Markers(s) == {layout.start[s], layout.end[s]}

\* the nodes of the list of scope s
ListNodes(s) == {scopeRef[s][i] : i \in DOMAIN scopeRef[s]}

\* C17: a scope renders two hidden spans, one right before and one right
\* after its children; they are never in its node list and never focused.
C17_MarkersAreBoundaries ==
  \A s \in ScopeIds :
    /\ \A m \in Markers(s) : Kind(m) = "span" /\ "hidden" \in Attrs(m)
    /\ activeElement \notin Markers(s)
    /\ Markers(s) \cap ListNodes(s) = {}
    /\ phase[s] \in {"committed", "mounted"}
         => /\ {n \in TopLevel(layout, s) : parent[n] # Null} \ ListNodes(s)
                 = Markers(s)
            /\ scopeRef[s] # << >>
                 => /\ PreviousSibling(World, scopeRef[s][1]) = layout.start[s]
                    /\ NextSibling(World, scopeRef[s][Len(scopeRef[s])])
                         = layout.end[s]

\* Tab on the last element of a containing scope wrapped around: the
\* walker was put on the first sentinel and focus went to the node after it
C17_Witness ==
  \E s \in ScopeIds :
    /\ TabbedInside(s)
    /\ ~last.shift
    /\ scopeRef[s] # << >>
    /\ last.from = scopeRef[s][Len(scopeRef[s])]
    /\ last.from # scopeRef[s][1]
    /\ activeElement = scopeRef[s][1]
    /\ PreviousSibling(World, activeElement) = layout.start[s]

\* C18: while every scope is mounted, the last-focused node of a
\* contain=true scope is unset or a node of that scope's own list (or a
\* descendant of one).
C18_FocusedNodeIsOwn ==
  \A s \in ScopeIds :
    (props[s].contain /\ \A t \in ScopeIds : phase[t] = "mounted")
      => focusedNode[s] = Null \/ focusedNode[s] \in ScopeElements(s)

\* C19: after a focus-in on a node of the mounted contain=true scope s has
\* been handled by every listener, the active scope is s.
C19_ActiveScopeIsTargets ==
  \A s \in ScopeIds :
    ( /\ last.op = "focus"
      /\ props[s].contain
      /\ phase[s] = "mounted"
      /\ last.node \in ScopeElements(s)
      /\ activeElement = last.node )
      => activeScope = s

\* C20: with a contain=true scope mounted inside another, an unmodified
\* Tab (Shift+Tab) pressed on a tabbable element of the inner scope moves
\* focus to the next (previous) tabbable element of the inner scope.
C20_NestedTabMovesOnce ==
  \A o \in ScopeIds : \A i \in ScopeIds \ {o} :
    ( /\ TabbedInside(i)
      /\ props[o].contain
      /\ phase[o] = "mounted"
      /\ ListNodes(i) \subseteq ScopeElements(o)
      /\ last.from \in TabCycle(i) )
      => activeElement = CyclicNext(TabCycle(i), last.from, last.shift)

\* C21: once a scope is torn down (its own listeners detached), no step
\* of the rest of the program dereferences the active-scope pointer while
\* it still refers to that scope: no handler walks the detached node list,
\* which would raise an error.
C21_NoStaleDereference ==
  [][\A s \in ScopeIds :
       (activeScope = s /\ phase[s] = "gone" /\ ~thrown) => ~thrown']_vars

\* C22: for a scope without a tabbable element (no children at all, or
\* none that Tab reaches) no operation raises an error, and mounting it
\* leaves the focused element where it was.
C22_NothingToFocusIsSafe ==
  \A s \in ScopeIds :
    TabCycle(s) = {}
      => /\ ~thrown
         /\ MountedNow(s) => activeElement = last.from

\* C23: while a scope is mounted, the node list its containment effect
\* works on and the node list its restoration effect works on are the
\* scope's current node list, also after its children changed.
C23_ControllersSeeCurrentList ==
  \A s \in ScopeIds :
    phase[s] = "mounted"
      => /\ containScope[s] = scopeRef[s]
         /\ restoreScope[s] = scopeRef[s]

\* C24: while a scope is mounted its restore target is the element captured
\* at mount (or none, once Tab found it gone), and no restoration is
\* requested or run before the scope unmounts.
C24_CapturedOnceUsedAtUnmount ==
  \A s \in ScopeIds :
    /\ phase[s] \in {"committed", "mounted"}
         => /\ nodeToRestore[s] \in {preMount[s], Null}
            /\ ~RestorePending(s)
    /\ RestoreRan(s) => phase[s] \in {"unmounting", "gone"}

\* C25: the commit that mounts a scope captures, before the scope's
\* listeners are attached and before its auto-focus runs, the element that
\* had focus before the commit; the captured element is not a node of the
\* scope, and the passive effects that follow do not capture again.
C25_CapturesPreMountFocus ==
  \A s \in ScopeIds :
    /\ (last.op = "mountCommit" /\ last.scope = s)
         => /\ nodeToRestore[s] = last.from
            /\ nodeToRestore[s] \notin ScopeElements(s)
            /\ \A i \in DOMAIN listeners : listeners[i] # s
    /\ MountedNow(s)
         => /\ nodeToRestore[s] \in {preMount[s], Null}
            /\ nodeToRestore[s] \notin ScopeElements(s)

\* C26: no animation frame runs a deferred focus-out check of a scope
\* that is unmounted and cleaned up.
C26_BlurChecksCancelled ==
  \A s \in ScopeIds :
    (last.op = "frame" /\ phase[s] = "gone")
      => \A i \in DOMAIN last.ran :
           ~(last.ran[i].kind = "blur" /\ last.ran[i].scope = s)

\* C27: when the restore callback of a scope runs, the scope is not in the
\* registry; it left the registry in the commit that requested the restore.
C27_UnregisteredBeforeRestore ==
  \A s \in ScopeIds :
    /\ RestorePending(s) => s \notin scopes
    /\ RestoreRan(s) => s \notin scopes

\* the restore of a containing scope ran while another scope was registered
\* and mounted, and put focus on the target
C27_Witness ==
  \E s \in ScopeIds : \E t \in ScopeIds \ {s} :
    /\ RestoreRan(s)
    /\ s \notin scopes
    /\ t \in scopes
    /\ phase[t] = "mounted"
    /\ activeElement # last.from

\* C28: while a mounted contain=true scope has a recorded last-focused
\* node (and no mount or unmount is half done), a focus-in on a node outside
\* every registered scope ends with the focused element inside some
\* registered scope.
C28_TrapHolds ==
  \A s \in ScopeIds :
    ( /\ last.op = "focus"
      /\ phase[s] = "mounted"
      /\ props[s].contain
      /\ last.memo[s] # Null
      /\ \A t \in ScopeIds : phase[t] \notin {"committed", "unmounting"}
      /\ ~InRegisteredScope(last.node) )
      => InRegisteredScope(activeElement)

\* the elements the platform's sequential navigation stops at
PlatformStops ==
  {m \in Nodes : CanFocus(World, m) /\ "tabindexNeg" \notin Attrs(m)}

\* where the platform's sequential navigation goes from element n: the
\* next (previous, with Shift) stop of the document, or out of the page
PlatformNext(n, shift) ==
  IF shift
  THEN IF {m \in PlatformStops : m < n} = {} THEN Body
       ELSE SetMax({m \in PlatformStops : m < n})
  ELSE IF {m \in PlatformStops : m > n} = {} THEN Body
       ELSE SetMin({m \in PlatformStops : m > n})

\* C29: an unmodified Tab pressed inside a contain=false scope is neither
\* consumed nor answered by the hand-off handler when the next tab stop of
\* the document is still inside the scope, or when the restore target is
\* missing, detached or the body: focus goes where the platform puts it.
C29_HandOffStandsAside ==
  \A s \in ScopeIds :
    ( /\ last.op = "tab"
      /\ ~last.mod
      /\ phase[s] \in {"committed", "mounted"}
      /\ ~props[s].contain
      /\ last.from \in ScopeElements(s)
      /\ \/ PlatformNext(last.from, last.shift) \in ScopeElements(s)
         \/ nodeToRestore[s] \in {Null, Body}
         \/ Body \notin Ancestors(nodeToRestore[s]) )
      => /\ ~last.prevented
         /\ ~last.stopped
         /\ activeElement = PlatformNext(last.from, last.shift)

\* Tab on the last element of the scope after the restore target was
\* removed: the platform moved focus to the element behind the scope
C29_Witness ==
  \E s \in ScopeIds :
    /\ last.op = "tab"
    /\ ~last.mod
    /\ ~last.shift
    /\ ~props[s].contain
    /\ phase[s] = "mounted"
    /\ last.from \in ScopeElements(s)
    /\ preMount[s] \notin {Null, Body}
    /\ Body \notin Ancestors(preMount[s])
    /\ nodeToRestore[s] = Null
    /\ ~last.prevented
    /\ activeElement \notin ScopeElements(s) \cup {Body}

\* C30: when autoFocus is disabled, the mount effects of a scope change
\* neither the focused element nor the active-scope pointer, whether or
\* not an explicit initial-focus target is supplied.
C30_NoAutoFocusNoChange ==
  \A s \in ScopeIds :
    (MountedNow(s) /\ ~props[s].autoFocus)
      => /\ activeElement = last.from
         /\ activeScope = last.was

\* C31: handling a focus-in or focus-out event terminates: the chain of
\* focus() calls made by the handlers of all mounted scopes, and of the
\* focus events these calls fire, never nests deeper than MaxDepth, so two
\* contain=true scopes do not take focus from each other without end.
C31_FocusChainsEnd == ~overflow

\* with two contain=true scopes mounted, a focusin outside every scope was
\* answered by a handler, which put focus back into a scope
C31_Witness ==
  /\ last.op = "focus"
  /\ ~overflow
  /\ ~thrown
  /\ ~InRegisteredScope(last.node)
  /\ last.node # activeElement
  /\ InRegisteredScope(activeElement)
  /\ \A s \in ScopeIds : phase[s] = "mounted" /\ props[s].contain
  /\ Cardinality(ScopeIds) = 2

\* the rule of visibility for one node: an element that is displayed
OwnRule(n) == Kind(n) # "#comment" /\ Attrs(n) \cap HidingAttrs = {}

\* DETAILS without the open attribute hides child n unless n is its SUMMARY
ClosedDetailsHides(n) ==
  /\ parent[n] # Null
  /\ Kind(parent[n]) = "details"
  /\ "open" \notin Attrs(parent[n])
  /\ Kind(n) # "summary"

\* the node and every ancestor pass the rule
VisibleByRule(n) ==
  \A a \in Ancestors(n) : OwnRule(a) /\ ~ClosedDetailsHides(a)

\* the tabbable filter of a walker without scope and without `from`
DocFilter == WalkerFilter(TRUE, Null, FALSE, << >>)

\* C32 as stated: isElementVisible(node) is true iff the node is not a
\* comment, no style or hidden attribute hides it, a closed DETAILS parent
\* hides it only if it is not the SUMMARY, and every ancestor passes the
\* same rule; the walker accepts no element under a non-visible ancestor.
C32_VisibleIffRule ==
  /\ \A n \in Nodes : isElementVisible(World, n, Null) <=> VisibleByRule(n)
  /\ \A n \in Nodes \ {Body} :
       acceptNode(World, DocFilter, n) = "accept" => VisibleByRule(n)

\* C32, amended: the same, for nodes that are HTML or SVG elements and
\* have only such ancestors; any other node is not visible.
C32_VisibleIffRuleAndHtml ==
  /\ \A n \in Nodes :
       isElementVisible(World, n, Null)
         <=> (VisibleByRule(n) /\ \A a \in Ancestors(n) : Kind(a) # "math")
  /\ \A n \in Nodes \ {Body} :
       acceptNode(World, DocFilter, n) = "accept" => VisibleByRule(n)

\* Tab in a scope with a closed DETAILS, pressed on the input inside its
\* SUMMARY: the walker passed over the input below the DETAILS
C32_Witness ==
  /\ last.op = "tab"
  /\ ~last.mod
  /\ ~last.shift
  /\ last.prevented
  /\ Kind(4) = "details"
  /\ Kind(5) = "summary"
  /\ Attrs(4) = {}
  /\ last.from = 6
  /\ isElementVisible(World, 6, Null)
  /\ activeElement = 9
  /\ ~isElementVisible(World, 7, Null)
  /\ MatchesTabbable(7)

\* the nodes a walker with filter f is to find below root
Candidates(f, root) ==
  {n \in Nodes \ {root} :
     /\ root \in Ancestors(n)
     /\ IF f.tabbable THEN MatchesTabbable(n) ELSE MatchesFocusable(n)
     /\ VisibleByRule(n)
     /\ \A a \in Ancestors(n) : Kind(a) # "math"
     /\ f.hasScope => \E i \in DOMAIN f.scope : f.scope[i] \in Ancestors(n)
     /\ f.from = Null \/ f.from \notin Ancestors(n)}

\* the first node of C behind n in document order, if there is one
FirstBehind(C, n) ==
  IF {m \in C : m > n} = {} THEN Null ELSE SetMin({m \in C : m > n})

\* the walkers looked at: focusable and tabbable, with and without the
\* scope's node list, without `from` and with the container's child
WalkerChoices ==
  {WalkerFilter(t, fr, h, scopeRef[1]) :
     t \in BOOLEAN, fr \in {Null, 5}, h \in BOOLEAN}

\* their roots: the parent of the scope's nodes and the container
WalkerRoots == {1, 4}

\* next() from the root returns the first candidate, next() from a
\* candidate the one behind it, and null from the last: repeated next()
\* lists the candidates of C, each once, in document order
EnumeratesCandidates(f, root, C) ==
  /\ nextNode(World, f, root, root) = FirstBehind(C, root)
  /\ \A n \in C : nextNode(World, f, root, n) = FirstBehind(C, n)

\* C33 as stated: repeated next() lists exactly the descendants of root of
\* the category that are visible, in the scope if one is given and outside
\* the `from` subtree, each once and in document order; next() past the last
\* and previous() before the first return null.
C33_WalkerEnumerates ==
  \A f \in WalkerChoices : \A root \in WalkerRoots :
    \A C \in {Candidates(f, root)} :
      /\ EnumeratesCandidates(f, root, C)
      /\ \A n \in C : FirstBehind(C, root) = n
                         => previousNode(World, f, root, n) = Null

\* C33, amended: the same, but previous() before the first candidate
\* returns the root when the root itself passes the filter, and null
\* otherwise.
C33_WalkerEnumeratesRootLast ==
  \A f \in WalkerChoices : \A root \in WalkerRoots :
    \A C \in {Candidates(f, root)} :
      /\ EnumeratesCandidates(f, root, C)
      /\ previousNode(World, f, root, root) = Null
      /\ \A n \in C : FirstBehind(C, root) = n
            => previousNode(World, f, root, n)
                 = IF acceptNode(World, f, root) = "accept" THEN root ELSE Null

\* Tab moved focus with the scope's walker, which has three elements to
\* list and leaves the closed DETAILS' own input out; a walker with `from`
\* set to the SUMMARY leaves that subtree out as well
C33_Witness ==
  /\ last.op = "tab"
  /\ last.prevented
  /\ phase[1] = "mounted"
  /\ Attrs(4) = {}
  /\ Kind(4) = "details"
  /\ Kind(5) = "summary"
  /\ Candidates(WalkerFilter(TRUE, Null, TRUE, scopeRef[1]), 1) = {5, 6, 9}
  /\ Candidates(WalkerFilter(TRUE, 5, TRUE, scopeRef[1]), 1) = {9}
  /\ nextNode(World, WalkerFilter(TRUE, 5, TRUE, scopeRef[1]), 1, 5) = 9
  /\ last.from = 6
  /\ activeElement = 9

====
